---- MODULE Spec2Model ----
(***************************************************************************)
(* Model of the protean diff/patch engine (src/protean/src/lib.rs):        *)
(* struct Patch with add / merge / is_empty, the Patchwork trait with      *)
(* new_patch / apply, and the diff of the leaf types generated by          *)
(* primitive_patchwork!.                                                   *)
(*                                                                         *)
(* A Rust String is a TLA+ string; format!("{}.{}", a, b) is a \o "." \o b.*)
(* A HashMap<String, String> is a function from its key set to values.     *)
(* A Patch value owns its HashMap: the model keeps the maps in `heap` and  *)
(* a patch holds the address of its map, so that copying a patch is an     *)
(* operation that can be checked rather than assumed.                      *)
(***************************************************************************)
EXTENDS Integers, Sequences, FiniteSets, TLC

VARIABLES
  slots,   \* the caller's two patch variables: slot -> Patch or NoPatch
  heap,    \* address -> HashMap contents (Free when no patch owns it)
  last,    \* the last call, what it returned, and the call before it
  nops,    \* number of calls made so far
  leaf,    \* one diff/apply run on a pair of leaf values
  comp     \* one run of the nested-merge comparison

vars == <<slots, heap, last, nops, leaf, comp>>

(***************************************************************************)
(* Bounds                                                                  *)
(***************************************************************************)
\* Calls made in one run of the patch operations.
MaxOps == 3

\* Entries a patch may hold; a call that would exceed it is not made.
MaxEntries == 3

\* Leaf integers are drawn from -MaxLeafInt .. MaxLeafInt.
MaxLeafInt == 7

(***************************************************************************)
(* Inputs                                                                  *)
(***************************************************************************)
Slots == {"p", "q"}
NoSlot == "none"
NoPatch == [none |-> TRUE]
Free == [free |-> TRUE]

\* The "whole value" key written by the leaf diff and matched by merge.
SelfKey == "&self"

\* Paths handed to add, prefixes handed to merge, encoded values.
AddPaths == {"", "a", SelfKey}
Prefixes == {"", "a"}
Values == {"1", "x"}

\* Validators a patch may be bound to: the one new_patch builds, and a
\* generated per-type validator (record with integer fields a and a.a).
Validators == {"accept_all", "record_int"}

(***************************************************************************)
(* HashMap<String, String>                                                 *)
(***************************************************************************)
EmptyMap == [k \in {} |-> ""]

Insert(m, key, value) ==
  [k \in (DOMAIN m) \cup {key} |-> IF k = key THEN value ELSE m[k]]

IsEmptyMap(m) == DOMAIN m = {}

\* The orders in which iter() may present the entries of a HashMap: the
\* order depends on the map's RandomState, so every permutation can occur.
RECURSIVE OrdersOf(_)
OrdersOf(S) ==
  IF S = {} THEN {<<>>}
  ELSE UNION {{<<k>> \o t : t \in OrdersOf(S \ {k})} : k \in S}

IterOrders(m) == OrdersOf(DOMAIN m)

(***************************************************************************)
(* Validator: Rc<dyn Fn(String, String) -> Result<()>>                     *)
(***************************************************************************)
\* The closure new_patch builds: Ok(()) for every pair.
AcceptAll(key, value) == TRUE

\* A validator generated for a record type with integer fields a and a.a:
\* the path must be a known field and the value must decode as an integer.
RecordInt(key, value) == key \in {"a", "a.a"} /\ value = "1"

\* validator(key.clone(), value.clone()) on the validator the patch holds;
\* TRUE stands for Ok(()).
Validate(vid, key, value) ==
  CASE vid = "accept_all" -> AcceptAll(key, value)
    [] vid = "record_int" -> RecordInt(key, value)

(***************************************************************************)
(* Patch::add on the map of a patch bound to validator vid.                *)
(* Result: ok, the map afterwards.                                         *)
(***************************************************************************)
PatchAddUnchecked(vid, m, key, value) ==
  [ok |-> TRUE, map |-> Insert(m, key, value)]

PatchAddInsertFirst(vid, m, key, value) ==
  [ok |-> Validate(vid, key, value), map |-> Insert(m, key, value)]

PatchAdd(vid, m, key, value) ==
  IF Validate(vid, key, value)
    THEN [ok |-> TRUE, map |-> Insert(m, key, value)]
    ELSE [ok |-> FALSE, map |-> m]

(***************************************************************************)
(* Patch::merge                                                            *)
(***************************************************************************)
CombinedKeyNoSentinel(prefix, k) == prefix \o "." \o k

CombinedKeyNoDot(prefix, k) == IF k = SelfKey THEN prefix ELSE prefix \o k

CombinedKey(prefix, k) ==
  IF k = SelfKey THEN prefix ELSE prefix \o "." \o k

\* The fold of merge: acc starts as Ok(self.clone()); each entry of `other`,
\* in iteration order `ord`, is added to the accumulator unless the
\* accumulator is already an error.  `seen` lists the keys of `other` whose
\* pair reached the validator; `failed` is the key of `other` whose pair was
\* rejected.
RECURSIVE MergeFold(_, _, _, _, _, _)
MergeFold(vid, acc, prefix, other, ord, i) ==
  IF i > Len(ord) THEN acc
  ELSE IF ~acc.ok THEN MergeFold(vid, acc, prefix, other, ord, i + 1)
  ELSE LET k == ord[i]
           r == PatchAdd(vid, acc.map, CombinedKey(prefix, k), other[k])
       IN  MergeFold(vid,
                     [ok |-> r.ok, map |-> r.map,
                      seen |-> Append(acc.seen, k),
                      failed |-> IF r.ok THEN <<>> ELSE <<k>>],
                     prefix, other, ord, i + 1)

PatchMerge(vid, m, prefix, other, ord) ==
  MergeFold(vid, [ok |-> TRUE, map |-> m, seen |-> <<>>, failed |-> <<>>],
            prefix, other, ord, 1)

(***************************************************************************)
(* Patch values and their maps                                             *)
(***************************************************************************)
PatchType == "STRUCT NAME HERE"

MkPatch(vid, addr) ==
  [patch_type |-> PatchType, validator |-> vid, value_map |-> addr]

\* #[derive(Clone)]: the copy kept in slot dst owns a new map, which the
\* model places at the address named after the slot.
CloneAddrShared(srcAddr, dst) == srcAddr

CloneAddr(srcAddr, dst) == dst

HasPatch(s) == slots[s] # NoPatch

Entries(s) == heap[slots[s].value_map]

\* Ok(self.clone()) assigned to the variable dst: the slots and the heap
\* once a copy of the patch (validator vid, map contents m, map at srcAddr)
\* is stored in dst.
Store(sl, hp, dst, vid, srcAddr, m) ==
  LET a == CloneAddr(srcAddr, dst)
  IN  [slots |-> [sl EXCEPT ![dst] = MkPatch(vid, a)],
       heap  |-> [hp EXCEPT ![a] = m]]

NoCall == [op |-> "none", recv |-> NoSlot, dst |-> NoSlot, key |-> "",
           value |-> "", ok |-> TRUE, seen |-> <<>>, failed |-> <<>>,
           prev |-> "none"]

IdleLeaf == [pc |-> "idle"]
IdleComp == [pc |-> "idle"]

(***************************************************************************)
(* Patch operations                                                        *)
(***************************************************************************)
\* Patches the caller may hold when the run starts: built by new_patch (or
\* bound to the generated validator) and filled by add.
InitMaps(vid) ==
  {m \in {EmptyMap,
          [k \in {"a"} |-> "1"],
          [k \in {SelfKey} |-> "x"],
          [k \in {"a", SelfKey} |-> IF k = "a" THEN "1" ELSE "x"]} :
     \A k \in DOMAIN m : Validate(vid, k, m[k])}

Init ==
  /\ \E vp, vq \in Validators :
       /\ slots = [s \in Slots |-> MkPatch(IF s = "p" THEN vp ELSE vq, s)]
       /\ \E mp \in InitMaps(vp), mq \in InitMaps(vq) :
            heap = [s \in Slots |-> IF s = "p" THEN mp ELSE mq]
  /\ last = NoCall
  /\ nops = 0
  /\ leaf = IdleLeaf
  /\ comp = IdleComp

\* Patchwork::new_patch: an empty patch bound to the accept-all validator,
\* assigned to the variable dst.
NewPatch(dst) ==
  /\ nops < MaxOps
  /\ slots' = [slots EXCEPT ![dst] = MkPatch("accept_all", dst)]
  /\ heap' = [heap EXCEPT ![dst] = EmptyMap]
  /\ last' = [NoCall EXCEPT !.prev = last.op, !.op = "new_patch", !.dst = dst]
  /\ nops' = nops + 1
  /\ UNCHANGED <<leaf, comp>>

\* let d = recv.clone();
Clone(recv, dst) ==
  /\ nops < MaxOps
  /\ HasPatch(recv) /\ dst # recv
  /\ LET st == Store(slots, heap, dst, slots[recv].validator,
                     slots[recv].value_map, Entries(recv))
     IN  slots' = st.slots /\ heap' = st.heap
  /\ last' = [NoCall EXCEPT !.prev = last.op, !.op = "clone", !.recv = recv,
                            !.dst = dst]
  /\ nops' = nops + 1
  /\ UNCHANGED <<leaf, comp>>

\* recv.add(key, value): the returned patch is dropped (dst = NoSlot) or
\* assigned to the other variable.
Add(recv, key, value, dst) ==
  /\ nops < MaxOps
  /\ HasPatch(recv) /\ dst # recv
  /\ Cardinality(DOMAIN Entries(recv) \cup {key}) <= MaxEntries
  /\ LET p  == slots[recv]
         r  == PatchAdd(p.validator, Entries(recv), key, value)
         h1 == [heap EXCEPT ![p.value_map] = r.map]
         st == IF r.ok /\ dst # NoSlot
                 THEN Store(slots, h1, dst, p.validator, p.value_map, r.map)
                 ELSE [slots |-> slots, heap |-> h1]
     IN  /\ slots' = st.slots
         /\ heap' = st.heap
         /\ last' = [NoCall EXCEPT !.prev = last.op, !.op = "add",
                                   !.recv = recv, !.dst = dst, !.key = key,
                                   !.value = value, !.ok = r.ok]
  /\ nops' = nops + 1
  /\ UNCHANGED <<leaf, comp>>

\* recv.merge(prefix, other.clone()): the entries of `other` are visited in
\* one of the orders its HashMap may present; the returned patch is dropped
\* or assigned to the other variable.
Merge(recv, prefix, other, dst) ==
  /\ nops < MaxOps
  /\ HasPatch(recv) /\ HasPatch(other) /\ other # recv /\ dst # recv
  /\ Cardinality(DOMAIN Entries(recv)
                   \cup {CombinedKey(prefix, k) : k \in DOMAIN Entries(other)})
       <= MaxEntries
  /\ \E ord \in IterOrders(Entries(other)) :
       LET p  == slots[recv]
           r  == PatchMerge(p.validator, Entries(recv), prefix,
                            Entries(other), ord)
           st == IF r.ok /\ dst # NoSlot
                   THEN Store(slots, heap, dst, p.validator, p.value_map, r.map)
                   ELSE [slots |-> slots, heap |-> heap]
       IN  /\ slots' = st.slots
           /\ heap' = st.heap
           /\ last' = [NoCall EXCEPT !.prev = last.op, !.op = "merge",
                                     !.recv = recv, !.dst = dst,
                                     !.key = prefix, !.ok = r.ok,
                                     !.seen = r.seen, !.failed = r.failed]
  /\ nops' = nops + 1
  /\ UNCHANGED <<leaf, comp>>

Next ==
  \/ \E d \in Slots : NewPatch(d)
  \/ \E s, d \in Slots : Clone(s, d)
  \/ \E s \in Slots, k \in AddPaths, v \in Values, d \in Slots \cup {NoSlot} :
       Add(s, k, v, d)
  \/ \E s, o \in Slots, f \in Prefixes, d \in Slots \cup {NoSlot} :
       Merge(s, f, o, d)

Spec == Init /\ [][Next]_vars

(***************************************************************************)
(* Leaf types: the impls generated by primitive_patchwork!                 *)
(*                                                                         *)
(* A leaf value is [ty, v].  An f64 is NaN or a signed integral magnitude  *)
(* (so that 0.0 and -0.0 are two values); a String is a sequence of        *)
(* characters.                                                             *)
(***************************************************************************)
F64NaN == [nan |-> TRUE, neg |-> FALSE, mag |-> 0]

F64Values ==
  {F64NaN} \cup [nan : {FALSE}, neg : BOOLEAN, mag : {0, 5, 7}]

Chars == {"x", "y", "\""}

StringValues == {<<>>} \cup {<<c>> : c \in Chars} \cup {<<"x", "\"">>}

LeafValues ==
       [ty : {"bool"}, v : BOOLEAN]
  \cup [ty : {"i32"}, v : -MaxLeafInt .. MaxLeafInt]
  \cup [ty : {"f64"}, v : F64Values]
  \cup [ty : {"char"}, v : Chars]
  \cup [ty : {"String"}, v : StringValues]

\* PartialEq::ne of the leaf type (self != struct2).
LeafNe(x, y) ==
  IF x.ty = "f64"
    THEN \/ x.v.nan \/ y.v.nan
         \/ x.v.mag # y.v.mag
         \/ (x.v.mag # 0 /\ x.v.neg # y.v.neg)
    ELSE x.v # y.v

\* serde_json::to_string of a leaf value.
Digits == <<"0", "1", "2", "3", "4", "5", "6", "7", "8", "9">>

RECURSIVE Decimal(_)
Decimal(n) ==
  IF n < 10 THEN Digits[n + 1] ELSE Decimal(n \div 10) \o Digits[(n % 10) + 1]

EscapeChar(c) ==
  CASE c = "\"" -> "\\\""
    [] c = "\\" -> "\\\\"
    [] OTHER -> c

RECURSIVE EscapeAll(_)
EscapeAll(cs) ==
  IF cs = <<>> THEN "" ELSE EscapeChar(Head(cs)) \o EscapeAll(Tail(cs))

ToJson(x) ==
  CASE x.ty = "bool" -> IF x.v THEN "true" ELSE "false"
    [] x.ty = "i32" -> IF x.v < 0 THEN "-" \o Decimal(-x.v) ELSE Decimal(x.v)
    [] x.ty = "f64" ->
         IF x.v.nan THEN "null"
         ELSE (IF x.v.neg THEN "-" ELSE "") \o Decimal(x.v.mag) \o ".0"
    [] x.ty = "char" -> "\"" \o EscapeChar(x.v) \o "\""
    [] x.ty = "String" -> "\"" \o EscapeAll(x.v) \o "\""

\* diff of a leaf type: a new patch, with the entry "&self" -> encoded
\* struct2 added when the two values differ.
LeafDiff(x, y) ==
  IF LeafNe(x, y)
    THEN PatchAdd("accept_all", EmptyMap, SelfKey, ToJson(y))
    ELSE [ok |-> TRUE, map |-> EmptyMap]

\* Patchwork::apply (the provided method, which no leaf type overrides):
\* logs the patch and returns Ok(()); self is not assigned.
LeafApply(c, patch) == [ok |-> TRUE, value |-> c]

NoPatchVars ==
  /\ slots = [s \in Slots |-> NoPatch]
  /\ heap = [s \in Slots |-> Free]
  /\ last = NoCall
  /\ nops = 0

\* let mut c = x.clone();
InitLeaf ==
  /\ NoPatchVars
  /\ \E x, y \in LeafValues :
       /\ x.ty = y.ty
       /\ leaf = [pc |-> "start", x |-> x, y |-> y, c |-> x,
                  diff |-> [ok |-> TRUE, map |-> EmptyMap], applied |-> FALSE]
  /\ comp = IdleComp

\* let p = x.diff(&y);
DiffLeaf ==
  /\ leaf.pc = "start"
  /\ leaf' = [leaf EXCEPT !.pc = "diffed", !.diff = LeafDiff(leaf.x, leaf.y)]
  /\ UNCHANGED <<slots, heap, last, nops, comp>>

\* c.apply(&p), when diff returned a patch.
ApplyLeaf ==
  /\ leaf.pc = "diffed" /\ leaf.diff.ok
  /\ LET r == LeafApply(leaf.c, leaf.diff.map)
     IN  leaf' = [leaf EXCEPT !.pc = "applied", !.c = r.value,
                              !.applied = r.ok]
  /\ UNCHANGED <<slots, heap, last, nops, comp>>

NextLeaf == DiffLeaf \/ ApplyLeaf

SpecLeaf == InitLeaf /\ [][NextLeaf]_vars

(***************************************************************************)
(* Nested merges: a patch embedded under prefix f, the result embedded     *)
(* under prefix g, against the patch embedded under g + "." + f at once.   *)
(* Every receiver is a patch fresh from new_patch.                         *)
(***************************************************************************)
CompPrefixes == {"", "f", "g", SelfKey}

CompPatches ==
  UNION {[d -> Values] : d \in SUBSET {SelfKey, "a"}}

InitComp ==
  /\ NoPatchVars
  /\ leaf = IdleLeaf
  /\ \E p \in CompPatches, f, g \in CompPrefixes :
       comp = [pc |-> "start", p |-> p, f |-> f, g |-> g,
               inner |-> EmptyMap, outer |-> EmptyMap, direct |-> EmptyMap]

\* let inner = new_patch().merge(f, p)?;
MergeInner ==
  /\ comp.pc = "start"
  /\ \E ord \in IterOrders(comp.p) :
       LET r == PatchMerge("accept_all", EmptyMap, comp.f, comp.p, ord)
       IN  r.ok /\ comp' = [comp EXCEPT !.pc = "inner", !.inner = r.map]
  /\ UNCHANGED <<slots, heap, last, nops, leaf>>

\* let outer = new_patch().merge(g, inner)?;
MergeOuter ==
  /\ comp.pc = "inner"
  /\ \E ord \in IterOrders(comp.inner) :
       LET r == PatchMerge("accept_all", EmptyMap, comp.g, comp.inner, ord)
       IN  r.ok /\ comp' = [comp EXCEPT !.pc = "outer", !.outer = r.map]
  /\ UNCHANGED <<slots, heap, last, nops, leaf>>

\* let direct = new_patch().merge(&format!("{}.{}", g, f), p)?;
MergeDirect ==
  /\ comp.pc = "outer"
  /\ \E ord \in IterOrders(comp.p) :
       LET r == PatchMerge("accept_all", EmptyMap,
                           comp.g \o "." \o comp.f, comp.p, ord)
       IN  r.ok /\ comp' = [comp EXCEPT !.pc = "done", !.direct = r.map]
  /\ UNCHANGED <<slots, heap, last, nops, leaf>>

NextComp == MergeInner \/ MergeOuter \/ MergeDirect

SpecComp == InitComp /\ [][NextComp]_vars

(***************************************************************************)
(* Properties of the patch operations                                      *)
(***************************************************************************)
OtherOf(s) == CHOOSE o \in Slots : o # s

\* The step just taken was a call of `op` (read in an action formula).
Called(op) == nops' = nops + 1 /\ last'.op = op

\* The entries of the patch in slot s after the step.
EntriesAfter(s) == heap'[slots'[s].value_map]

\* The combined key as section 4.1 of the specification words it.
ExpectedKey(prefix, k) == IF k = "&self" THEN prefix ELSE prefix \o "." \o k

\* C3: whenever the validator of the receiver rejects (path, value), add
\* returns an error and no patch has other entries than before the call.
C3_RejectedAddLeavesPatch ==
  [][(Called("add") /\
      ~Validate(slots[last'.recv].validator, last'.key, last'.value))
     => /\ ~last'.ok
        /\ slots' = slots
        /\ \A s \in Slots : EntriesAfter(s) = Entries(s)]_vars

\* A rejected add of a path that already holds another value.
C3_Witness ==
  /\ last.op = "add" /\ ~last.ok
  /\ last.key \in DOMAIN Entries(last.recv)
  /\ Entries(last.recv)[last.key] # last.value

\* C4: the patch a successful merge returns holds the receiver's entries
\* and, for every entry (k, v) of other, combined(k) -> v, the incoming entry
\* winning on a shared key, and nothing else.
C4_MergeKeyComposition ==
  [][(Called("merge") /\ last'.ok /\ last'.dst # NoSlot)
     => LET recv == Entries(last'.recv)
            inc  == Entries(OtherOf(last'.recv))
            pre  == last'.key
            ret  == EntriesAfter(last'.dst)
            ck   == {ExpectedKey(pre, k) : k \in DOMAIN inc}
        IN  /\ DOMAIN ret = (DOMAIN recv) \cup ck
            /\ \A k \in DOMAIN inc : ret[ExpectedKey(pre, k)] = inc[k]
            /\ \A k \in (DOMAIN recv) \ ck : ret[k] = recv[k]]_vars

\* A successful merge under prefix "a" whose result holds the key of a
\* whole-value entry ("a"), the key of a field entry ("a.a"), and a value
\* under "a" that replaced the receiver's.
C4_Witness ==
  /\ last.op = "merge" /\ last.ok /\ last.dst # NoSlot /\ last.key = "a"
  /\ {"a", "a.a"} \subseteq DOMAIN Entries(last.dst)
  /\ "a" \in DOMAIN Entries(last.recv)
  /\ Entries(last.recv)["a"] # Entries(last.dst)["a"]

\* C5: after a successful self.merge(prefix, other) the receiver itself holds
\* the merged entries: it is non-empty when other was, and its entries are
\* those of the returned patch.
C5_MergeFoldsIntoReceiver ==
  [][(Called("merge") /\ last'.ok)
     => /\ ~IsEmptyMap(Entries(OtherOf(last'.recv)))
             => ~IsEmptyMap(EntriesAfter(last'.recv))
        /\ last'.dst # NoSlot
             => EntriesAfter(last'.recv) = EntriesAfter(last'.dst)]_vars

\* C6: every entry of every patch is a pair the patch's validator accepts.
C6_EntriesValidated ==
  \A s \in Slots :
    HasPatch(s) =>
      \A k \in DOMAIN Entries(s) : Validate(slots[s].validator, k, Entries(s)[k])

\* A patch bound to the rejecting validator that was returned by a merge
\* and holds a merged entry.
C6_Witness ==
  /\ last.op = "merge" /\ last.ok /\ last.dst # NoSlot
  /\ slots[last.dst].validator = "record_int"
  /\ ~IsEmptyMap(Entries(last.dst))
  /\ "a.a" \in DOMAIN Entries(last.dst)

\* C7: no patch ever holds an entry whose path is the empty string.
C7_NoEmptyPath ==
  \A s \in Slots : HasPatch(s) => "" \notin DOMAIN Entries(s)

\* C9: the outcome of merge does not depend on the order in which the
\* entries of other are presented: the same success or the same rejected
\* entry, and nothing reaches the validator after the rejected entry.
C9_MergeDeterministic ==
  [][Called("merge")
     => /\ \A ord \in IterOrders(Entries(OtherOf(last'.recv))) :
             LET r == PatchMerge(slots[last'.recv].validator,
                                 Entries(last'.recv), last'.key,
                                 Entries(OtherOf(last'.recv)), ord)
             IN  r.ok = last'.ok /\ r.failed = last'.failed
        /\ ~last'.ok => last'.seen[Len(last'.seen)] = last'.failed[1]]_vars

\* C10: an add on one patch leaves the entries of every other patch (a
\* clone of it, or a patch an earlier add or merge returned) unchanged.
C10_SnapshotIndependent ==
  [][Called("add")
     => \A s \in Slots \ {last'.recv, last'.dst} :
          HasPatch(s) => EntriesAfter(s) = Entries(s)]_vars

\* A clone followed by a successful add on one of the two patches, after
\* which the other still holds the entries from before the add.
C10_Witness ==
  /\ last.prev = "clone" /\ last.op = "add" /\ last.ok /\ last.dst = NoSlot
  /\ HasPatch(OtherOf(last.recv))
  /\ ~IsEmptyMap(Entries(OtherOf(last.recv)))
  /\ slots[last.recv].validator = slots[OtherOf(last.recv)].validator
  /\ Entries(last.recv) # Entries(OtherOf(last.recv))
  /\ Entries(last.recv) =
       Insert(Entries(OtherOf(last.recv)), last.key, last.value)

(***************************************************************************)
(* Properties of the leaf diff and apply                                   *)
(***************************************************************************)
\* C1: after p = diff(x, y) and apply(c, p) on a copy c of x, c equals y.
C1_LeafRoundTrip ==
  leaf.pc = "applied" => leaf.c = leaf.y

\* C2: diff(x, y) of leaf values succeeds; the patch is empty when x equals
\* y, and so always for diff(x, x); otherwise it holds exactly the entry
\* "&self" -> encoding of y (diff(5, 7) holds "&self" -> "7").
C2_LeafDiffResult ==
  leaf.pc \in {"diffed", "applied"} =>
    /\ leaf.diff.ok
    /\ ~LeafNe(leaf.x, leaf.y) => IsEmptyMap(leaf.diff.map)
    /\ leaf.x = leaf.y => IsEmptyMap(leaf.diff.map)
    /\ LeafNe(leaf.x, leaf.y) =>
         /\ DOMAIN leaf.diff.map = {"&self"}
         /\ leaf.diff.map["&self"] = ToJson(leaf.y)
    /\ (leaf.x.ty = "i32" /\ leaf.x.v = 5 /\ leaf.y.v = 7)
         => leaf.diff.map = [k \in {"&self"} |-> "7"]

(***************************************************************************)
(* Properties of nested merges                                             *)
(***************************************************************************)
\* C8 as claimed: for every patch p and all prefixes f and g, embedding p
\* under f and the result under g gives the entries of embedding p under
\* g + "." + f.
C8_PrefixComposition ==
  comp.pc = "done" => comp.outer = comp.direct

\* C8 as amended: the same for every prefix f other than the whole-value
\* key "&self".
C8_PrefixCompositionFieldPrefix ==
  (comp.pc = "done" /\ comp.f # "&self") => comp.outer = comp.direct

\* A finished run on a patch with a whole-value entry and a field entry,
\* under two non-empty field prefixes.
C8_Witness ==
  /\ comp.pc = "done" /\ comp.f = "f" /\ comp.g = "g"
  /\ DOMAIN comp.p = {"&self", "a"}
  /\ DOMAIN comp.outer = {"g.f", "g.f.a"}
  /\ comp.outer = comp.direct

====
